---- MODULE Spec2Model ----
(***************************************************************************)
(* A model of scripts/bundle.js, the React VR production bundling script.  *)
(*                                                                         *)
(* Strings are modelled as sequences of tokens.  A file name is a sequence *)
(* of tokens such as <<"index", ".vr", ".js">>; a path is a record         *)
(* [abs, segs] whose segs is a sequence of names; the content of an HTML   *)
(* file is a sequence of tokens.  Every token that starts with "." holds   *)
(* no other "." and no other token holds one, so a test the code makes on  *)
(* characters (a suffix, an extension, a substring) is the same test on    *)
(* tokens.                                                                 *)
(***************************************************************************)
EXTENDS Integers, Sequences, FiniteSets, TLC

VARIABLES
  pc,          \* position of the script
  cwd,         \* process.cwd()
  projectDir,  \* let projectDir
  buildDir,    \* const buildDir, an array of two path strings
  pkg,         \* file system: the package.json of each directory
  buildStat,   \* file system: what path.join(...buildDir) is
  stat,        \* what fs.statSync found at the build directory's path
  mkdirCalls,  \* number of fs.mkdir calls made
  ops,         \* the operations launched by the fan-out, in launch order
  fanOut,      \* whether Promise.all has been called
  contents,    \* projectDirContents, once the walk has run
  printed,     \* console.log output, in order
  exitCode,    \* exit status of the process, NoExit while it runs
  wfs,         \* walkDirSync in isolation: the file system
  wexclude,    \* walkDirSync in isolation: options.exclude
  wres         \* walkDirSync in isolation: the value returned

vars == <<pc, cwd, projectDir, buildDir, pkg, buildStat, stat, mkdirCalls, ops,
          fanOut, contents, printed, exitCode, wfs, wexclude, wres>>

runVars == <<pc, cwd, projectDir, buildDir, pkg, buildStat, stat, mkdirCalls, ops,
             fanOut, contents, printed, exitCode>>

walkVars == <<wfs, wexclude, wres>>

(***************************************************************************)
(* Bounds of the model.                                                    *)
(***************************************************************************)
MaxDepth == 3        \* depth of the start directory in the upward search
MaxFiles == 3        \* files of the project tree in a run
MaxEntries == 3      \* entries of the tree walked in isolation
MaxContentLen == 7   \* tokens of an HTML file rewritten in isolation

(***************************************************************************)
(* Paths: the part of Node's path module the script uses (POSIX).          *)
(***************************************************************************)
DotDot == <<"..">>

Abs(segs) == [abs |-> TRUE, segs |-> segs]

Rel(segs) == [abs |-> FALSE, segs |-> segs]

NoPath == Rel(<<>>)

RECURSIVE NormalizeSegs(_, _)
NormalizeSegs(segs, acc) ==
  IF segs = <<>> THEN acc
  ELSE IF Head(segs) = DotDot
       THEN NormalizeSegs(Tail(segs),
                          IF acc = <<>> THEN <<>> ELSE SubSeq(acc, 1, Len(acc) - 1))
       ELSE NormalizeSegs(Tail(segs), Append(acc, Head(segs)))

RECURSIVE ConcatSegs(_)
ConcatSegs(args) ==
  IF args = <<>> THEN <<>> ELSE Head(args).segs \o ConcatSegs(Tail(args))

\* path.join(a, b, ...): the arguments concatenated and normalized.  Every
\* join of the script starts from an absolute path.
PathJoin(args) == [abs |-> args[1].abs, segs |-> NormalizeSegs(ConcatSegs(args), <<>>)]

RECURSIVE ResolveFrom(_, _, _)
ResolveFrom(args, i, tail) ==
  IF i = 0 THEN Abs(NormalizeSegs(cwd.segs \o tail, <<>>))
  ELSE IF args[i].abs THEN Abs(NormalizeSegs(args[i].segs \o tail, <<>>))
       ELSE ResolveFrom(args, i - 1, args[i].segs \o tail)

\* path.resolve(a, b, ...): right to left until an absolute path is built.
PathResolve(args) == ResolveFrom(args, Len(args), <<>>)

\* The ancestor of dir at depth k.
Ancestor(dir, k) == Abs(SubSeq(dir.segs, 1, k))

\* path.basename(p): the last name of the path.
PathBasename(p) == IF p.segs = <<>> THEN <<>> ELSE p.segs[Len(p.segs)]

EndsWith(name, suffix) ==
  /\ Len(name) >= Len(suffix)
  /\ SubSeq(name, Len(name) - Len(suffix) + 1, Len(name)) = suffix

\* path.basename(p, ext): ext is removed unless it is the whole name.
PathBasenameExt(p, ext) ==
  LET base == PathBasename(p) IN
  IF EndsWith(base, ext) /\ Len(base) > Len(ext)
  THEN SubSeq(base, 1, Len(base) - Len(ext))
  ELSE base

IsExtToken(t) == t \in {".vr", ".js", ".html", ".json", ".bundle", ".lock"}

\* path.extname(p): from the last "." of the base name, "" when there is no
\* "." or the only one is the first character.
PathExtname(p) ==
  LET base == PathBasename(p) IN
  IF Len(base) >= 2 /\ IsExtToken(base[Len(base)]) THEN <<base[Len(base)]>> ELSE <<>>

(***************************************************************************)
(* The project root search.                                                *)
(***************************************************************************)
DirNames == <<"proj", "src", "ui", "lib", "deep", "more">>

PkgKinds == {"absent", "nodeps", "other", "reactvr"}

ChainDir(k) == Abs([i \in 1..k |-> <<DirNames[i]>>])

\* process.exit(code) has not been called and the process has not ended.
NoExit == -1

NoReason == [tag |-> "none", code |-> 0]

\* The values the script rejects promises with and prints as ${err}: a
\* number, null (a subprocess ended by a signal), an fs error, a TypeError.
Code(n) == [tag |-> "code", code |-> n]

NullCode == [tag |-> "null", code |-> 0]

IoError == [tag |-> "ioerror", code |-> 0]

TypeError == [tag |-> "TypeError", code |-> 0]

Msg(m, r, d) == [msg |-> m, reason |-> r, dir |-> d]

hasPackageAlways(dir) == pkg[dir] # "absent"

hasPackage(dir) ==
  IF pkg[dir] = "absent" THEN FALSE     \* fs.statSync(packagePath) throws
  ELSE pkg[dir] = "reactvr"             \* pkg && pkg.dependencies && pkg.dependencies['react-vr']

LocateFound ==
  /\ pc = "locating"
  /\ hasPackage(projectDir)
  /\ pc' = "ensuring"
  /\ UNCHANGED <<cwd, projectDir, buildDir, pkg, buildStat, stat, mkdirCalls, ops,
                 fanOut, contents, printed, exitCode>>
  /\ UNCHANGED walkVars

LocateStep ==
  /\ pc = "locating"
  /\ ~hasPackage(projectDir)
  /\ LET next == PathJoin(<<projectDir, Rel(<<DotDot>>)>>) IN
     /\ projectDir # next
     /\ projectDir' = PathJoin(<<projectDir, Rel(<<DotDot>>)>>)
  /\ UNCHANGED <<pc, cwd, buildDir, pkg, buildStat, stat, mkdirCalls, ops,
                 fanOut, contents, printed, exitCode>>
  /\ UNCHANGED walkVars

LocateNotFound ==
  /\ pc = "locating"
  /\ ~hasPackage(projectDir)
  /\ LET next == PathJoin(<<projectDir, Rel(<<DotDot>>)>>) IN
     projectDir = next
  /\ printed' = Append(printed, Msg("notfound", NoReason, NoPath))
  /\ exitCode' = 1
  /\ pc' = "exited"
  /\ UNCHANGED <<cwd, projectDir, buildDir, pkg, buildStat, stat, mkdirCalls, ops,
                 fanOut, contents>>
  /\ UNCHANGED walkVars

buildDirName == <<"build">>

NoWalk == [isArray |-> FALSE, str |-> NoPath, val |-> <<>>]

EmptyFs == [dirs |-> {}, files |-> {}]

\* The script's start: lines 126-128 with the file system given.
Start(c, p, b) ==
  /\ pc = "locating"
  /\ cwd = c
  /\ projectDir = c
  /\ buildDir = <<c, Rel(<<buildDirName>>)>>
  /\ pkg = p
  /\ buildStat = b
  /\ stat = "none"
  /\ mkdirCalls = 0
  /\ ops = <<>>
  /\ fanOut = FALSE
  /\ contents = NoWalk
  /\ printed = <<>>
  /\ exitCode = NoExit

WalkIdle ==
  /\ wfs = EmptyFs
  /\ wexclude = {}
  /\ wres = NoWalk

LocateDirs == {ChainDir(k) : k \in 0..MaxDepth}

InitLocate ==
  /\ \E c \in LocateDirs, p \in [LocateDirs -> PkgKinds] : Start(c, p, "absent")
  /\ WalkIdle

NextLocate == LocateFound \/ LocateStep \/ LocateNotFound

SpecLocate == InitLocate /\ [][NextLocate]_vars

Declares(dir) == pkg[dir] = "reactvr"

IsAncestorOrSelf(a, dir) ==
  /\ Len(a.segs) <= Len(dir.segs)
  /\ a = Ancestor(dir, Len(a.segs))

NoneDeclaresBelow(dir, k) ==
  \A j \in (k + 1)..Len(dir.segs) : ~Declares(Ancestor(dir, j))

NameOrder ==
  << <<"build">>, <<"client", ".js">>, <<"client", ".vr", ".js">>,
     <<"index", ".html">>, <<"index", ".vr", ".js">>, <<"node_modules">>,
     <<"package", ".json">>, <<"proj">>, <<"src">> >>

Child(dir, f) == PathJoin(<<dir, Rel(<<f>>)>>)

Exists(fs, p) == p \in fs.dirs \/ p \in fs.files

readdirSync(fs, dir) ==
  LET here(f) == Exists(fs, Child(dir, f)) IN SelectSeq(NameOrder, here)

KeepAll(f, exclude) == TRUE

\* .filter(f => options.exclude.indexOf(f) === -1)
Keep(f, exclude) == f \notin exclude

WalkString(p) == [isArray |-> FALSE, str |-> p, val |-> <<>>]

WalkArray(v) == [isArray |-> TRUE, str |-> NoPath, val |-> v]

RECURSIVE walkDirSync(_, _, _)
RECURSIVE WalkReduce(_, _, _, _, _)
\* .map(f => walkDirSync(path.join(dir, f), options)).reduce(..., []) over
\* the names from the i-th on, with acc the array reduced so far.
WalkReduce(fs, dir, names, exclude, acc) ==
  IF names = <<>> THEN acc
  ELSE LET f == walkDirSync(fs, Child(dir, Head(names)), exclude) IN
       WalkReduce(fs, dir, Tail(names), exclude,
                  IF f.isArray THEN acc \o f.val ELSE Append(acc, f.str))

walkDirSync(fs, dir, exclude) ==
  IF dir \notin fs.dirs THEN WalkString(dir)
  ELSE LET kept(f) == Keep(f, exclude) IN
       WalkArray(WalkReduce(fs, dir, SelectSeq(readdirSync(fs, dir), kept), exclude, <<>>))

WalkRoot == Abs(<< <<"proj">> >>)

WalkNames == { <<"node_modules">>, <<"src">>, <<"index", ".vr", ".js">> }

\* The trees with root WalkRoot and at most n entries below it: each entry
\* is added as a file or a directory under a directory of the tree.
RECURSIVE Trees(_)
Trees(n) ==
  IF n = 0 THEN {[dirs |-> {WalkRoot}, files |-> {}]}
  ELSE LET smaller == Trees(n - 1) IN
       smaller \cup
       UNION { UNION { { [dirs |-> t.dirs \cup {Child(d, f)}, files |-> t.files],
                         [dirs |-> t.dirs, files |-> t.files \cup {Child(d, f)}] }
                       : <<d, f>> \in { x \in t.dirs \X WalkNames :
                                          ~Exists(t, Child(x[1], x[2])) } }
               : t \in smaller }

RunIdle ==
  /\ pc = "idle"
  /\ cwd = WalkRoot
  /\ projectDir = WalkRoot
  /\ buildDir = <<WalkRoot, Rel(<<buildDirName>>)>>
  /\ pkg = <<>>
  /\ buildStat = "absent"
  /\ stat = "none"
  /\ mkdirCalls = 0
  /\ ops = <<>>
  /\ fanOut = FALSE
  /\ contents = NoWalk
  /\ printed = <<>>
  /\ exitCode = NoExit

InitWalk ==
  /\ RunIdle
  /\ wfs \in Trees(MaxEntries)
  /\ wexclude \in SUBSET WalkNames
  /\ wres = NoWalk

WalkCall ==
  /\ wres = NoWalk
  /\ wres' = walkDirSync(wfs, WalkRoot, wexclude)
  /\ UNCHANGED <<wfs, wexclude>>
  /\ UNCHANGED runVars

NextWalk == WalkCall

SpecWalk == InitWalk /\ [][NextWalk]_vars

BelowRoot(p) == {p.segs[i] : i \in (Len(WalkRoot.segs) + 1)..Len(p.segs)}

Range(s) == {s[i] : i \in 1..Len(s)}

(***************************************************************************)
(* C4: walkDirSync(root, {exclude}) returns exactly the files under root   *)
(* none of whose path components below root is an excluded name: nothing   *)
(* inside an excluded directory at any depth, no excluded file, no         *)
(* directory, each file once and no file left out.                         *)
(***************************************************************************)
C4_WalkExact ==
  wres # NoWalk =>
    /\ wres.isArray
    /\ Range(wres.val) = {p \in wfs.files : BelowRoot(p) \cap wexclude = {}}
    /\ Len(wres.val) = Cardinality(Range(wres.val))
    /\ Range(wres.val) \cap wfs.dirs = {}

C4_Witness ==
  /\ wres # NoWalk
  /\ wres.val # <<>>
  /\ \E p \in wfs.files :
       /\ Len(p.segs) >= Len(WalkRoot.segs) + 2
       /\ p.segs[Len(WalkRoot.segs) + 1] \in wexclude
       /\ p.segs[Len(p.segs)] \notin wexclude

(***************************************************************************)
(* replaceBundleExtensionsInHtml: the regular expression, String.match,    *)
(* String.replace and the rewrite of one file's content.                   *)
(***************************************************************************)
Quote == "\""

Slash == "/"

Bundle == ".bundle"

IsQuote(c) == c \in {"\"", "'"}

\* The number of characters from position i on that [^"'] matches.
RECURSIVE NonQuoteRun(_, _)
NonQuoteRun(s, i) ==
  IF i > Len(s) \/ IsQuote(s[i]) THEN 0 ELSE 1 + NonQuoteRun(s, i + 1)

\* /([^"'])+\.bundle([^"'])+/ tried at position i with "\.bundle" at j, for
\* j from the greedy end of the first group downwards (backtracking): the
\* position the match ends at, 0 when there is none.
RECURSIVE MatchBacktrack(_, _, _)
MatchBacktrack(s, i, j) ==
  IF j <= i THEN 0
  ELSE IF s[j] = Bundle /\ NonQuoteRun(s, j + 1) >= 1
       THEN j + NonQuoteRun(s, j + 1)
       ELSE MatchBacktrack(s, i, j - 1)

MatchFrom(s, i) == MatchBacktrack(s, i, i + NonQuoteRun(s, i) - 1)

\* The matches of the global regular expression from position i on, each
\* as [from, to].
RECURSIVE MatchSpans(_, _)
MatchSpans(s, i) ==
  IF i > Len(s) THEN <<>>
  ELSE LET e == MatchFrom(s, i) IN
       IF e = 0 THEN MatchSpans(s, i + 1)
       ELSE <<[from |-> i, to |-> e]>> \o MatchSpans(s, e + 1)

\* fileData.match(bundleRegex): null when nothing matches, else the array
\* of the matched strings.
StringMatch(s) ==
  LET spans == MatchSpans(s, 1) IN
  IF spans = <<>> THEN [null |-> TRUE, items |-> <<>>]
  ELSE [null |-> FALSE,
        items |-> [k \in 1..Len(spans) |-> SubSeq(s, spans[k].from, spans[k].to)]]

\* s.indexOf(p), from 1; 0 when p does not occur.
RECURSIVE IndexOfFrom(_, _, _)
IndexOfFrom(s, p, i) ==
  IF i + Len(p) - 1 > Len(s) THEN 0
  ELSE IF SubSeq(s, i, i + Len(p) - 1) = p THEN i
       ELSE IndexOfFrom(s, p, i + 1)

\* s.replace(p, r) with p a string: the first occurrence of p is replaced.
StringReplace(s, p, r) ==
  LET i == IndexOfFrom(s, p, 1) IN
  IF i = 0 THEN s
  ELSE SubSeq(s, 1, i - 1) \o r \o SubSeq(s, i + Len(p), Len(s))

RECURSIVE StripTrailingSlashes(_)
StripTrailingSlashes(p) ==
  IF p # <<>> /\ p[Len(p)] = Slash
  THEN StripTrailingSlashes(SubSeq(p, 1, Len(p) - 1))
  ELSE p

RECURSIVE LastIndexOf(_, _, _)
LastIndexOf(s, c, i) ==
  IF i = 0 THEN 0 ELSE IF s[i] = c THEN i ELSE LastIndexOf(s, c, i - 1)

\* path.basename(p) of a string: trailing "/" dropped, then what follows
\* the last "/".
StrBasename(p) ==
  LET q == StripTrailingSlashes(p) IN
  SubSeq(q, LastIndexOf(q, Slash, Len(q)) + 1, Len(q))

\* name.split('.')[0]: what precedes the first ".".
RECURSIVE FirstSegment(_)
FirstSegment(name) ==
  IF name = <<>> \/ IsExtToken(Head(name)) THEN <<>>
  ELSE <<Head(name)>> \o FirstSegment(Tail(name))

\* path.sep + path.basename(p).split('.')[0] + '.bundle.js'
updatedPath(p) == <<Slash>> \o FirstSegment(StrBasename(p)) \o <<Bundle, ".js">>

\* bundlePaths.forEach(p => { fileData = fileData.replace(p, updatedPath) })
RECURSIVE ReplaceEach(_, _)
ReplaceEach(fileData, bundlePaths) ==
  IF bundlePaths = <<>> THEN fileData
  ELSE ReplaceEach(StringReplace(fileData, Head(bundlePaths), updatedPath(Head(bundlePaths))),
                   Tail(bundlePaths))

\* The body of the fs.readFile callback for data read without error: it
\* throws a TypeError at bundlePaths.length when match returned null, and
\* otherwise asks for the writes listed, in order.
ReadCallback(data) ==
  LET bundlePaths == StringMatch(data) IN
  IF bundlePaths.null THEN [threw |-> TRUE, writes |-> <<>>]
  ELSE [threw |-> FALSE,
        writes |-> (IF Len(bundlePaths.items) = 0 THEN <<data>> ELSE <<>>)
                   \o <<ReplaceEach(data, bundlePaths.items)>>]

(***************************************************************************)
(* Promises.                                                               *)
(***************************************************************************)
NewPromise == [st |-> "pending", val |-> NoReason, settles |-> 0]

reject(p, v) ==
  IF p.st = "pending" THEN [st |-> "rejected", val |-> v, settles |-> p.settles + 1]
  ELSE p

resolveOverrides(p) == [st |-> "fulfilled", val |-> NoReason, settles |-> p.settles + 1]

resolve(p) ==
  IF p.st = "pending" THEN [st |-> "fulfilled", val |-> NoReason, settles |-> p.settles + 1]
  ELSE p

\* npm.on('close', (code) => { if (code !== 0) { reject(code); } resolve(); })
onClose(p, code) == resolve(IF code # Code(0) THEN reject(p, code) ELSE p)

\* err => { if (err) reject(err); resolve(); } of fs.writeFile
onWrite(p, failed) == resolve(IF failed THEN reject(p, IoError) ELSE p)

(***************************************************************************)
(* The build directory step (lines 139-153).                               *)
(***************************************************************************)
FailureExit(reason) ==
  /\ printed' = Append(printed, Msg("failure", reason, NoPath))
  /\ exitCode' = 1
  /\ pc' = "exited"

\* The executor: statSync of the build directory, and fs.mkdir unless it is
\* a directory.
EnsureBuildDir ==
  /\ pc = "ensuring"
  /\ stat' = buildStat
  /\ IF buildStat = "dir"
     THEN /\ pc' = "walking"
          /\ UNCHANGED mkdirCalls
     ELSE /\ pc' = "mkdir"
          /\ mkdirCalls' = mkdirCalls + 1
  /\ UNCHANGED <<cwd, projectDir, buildDir, pkg, buildStat, ops, fanOut,
                 contents, printed, exitCode>>
  /\ UNCHANGED walkVars

mkdirCallbackIgnoresErr(err) == "resolve"

\* err => { if (err) { console.log(...); return reject(1); } resolve(); }
mkdirCallback(err) == IF err THEN "reject" ELSE "resolve"

\* The callback of fs.mkdir, and the catch handler when it rejects.  The
\* directory is made only when nothing was at its path.
MkdirDone(err) ==
  /\ ~err => buildStat = "absent"
  /\ buildStat' = IF err THEN buildStat ELSE "dir"
  /\ IF mkdirCallback(err) = "reject"
     THEN /\ printed' = printed \o <<Msg("mkdirfailed", NoReason, NoPath),
                                     Msg("failure", Code(1), NoPath)>>
          /\ exitCode' = 1
          /\ pc' = "exited"
     ELSE /\ pc' = "walking"
          /\ UNCHANGED <<printed, exitCode>>
  /\ UNCHANGED <<cwd, projectDir, buildDir, pkg, stat, mkdirCalls, ops, fanOut, contents>>
  /\ UNCHANGED walkVars

MkdirOk ==
  /\ pc = "mkdir"
  /\ MkdirDone(FALSE)

MkdirFails ==
  /\ pc = "mkdir"
  /\ MkdirDone(TRUE)

(***************************************************************************)
(* The walk, the classification and the fan-out (lines 153-199).           *)
(***************************************************************************)
BuildExclude ==
  { <<"node_modules">>, <<"build">>, <<"__tests__">>, <<"static_assets">>,
    <<".babelrc">>, <<".flowconfig">>, <<".git">>, <<".gitignore">>,
    <<".watchmanconfig">>, <<"yarn", ".lock">>, <<"package", ".json">>,
    <<"rn-cli", ".config", ".js">> }

staticAssetsDir == <<"static_assets">>

VrJs == <<".vr", ".js">>

BundleJs == <<Bundle, ".js">>

\* vrJsRegex.test(file): the path ends in ".vr.js".
vrJsRegexTest(file) == EndsWith(PathBasename(file), VrJs)

\* f.indexOf('client.js') !== -1, on the whole path.
containsClientJs(file) ==
  \E k \in 1..Len(file.segs) :
    \E i \in 1..(Len(file.segs[k]) - 1) :
      file.segs[k][i] = "client" /\ file.segs[k][i + 1] = ".js"

isHtml(file) == PathExtname(file) = <<".html">>

\* projectDirContents.find(pred): the index of the first match, 0 for
\* undefined.
RECURSIVE FindClient(_, _)
FindClient(files, i) ==
  IF i > Len(files) THEN 0
  ELSE IF containsClientJs(files[i]) THEN i ELSE FindClient(files, i + 1)

Op(kind, input, output, dest) ==
  [kind |-> kind, input |-> input, output |-> output, assetsDest |-> dest,
   promise |-> NewPromise, phase |-> "running", code |-> NoReason,
   err |-> "none", data |-> <<>>, writes |-> <<>>, written |-> <<>>]

\* An array given as an argument of spawn is turned into a string: its
\* elements joined by ",".  For [dir, 'build'] that is the path whose last
\* name is dir's last name, "," and "build".
ArrayToString(a) ==
  LET segs == a[1].segs
      second == a[2].segs[1]
  IN IF segs = <<>> THEN Abs(<< <<",">> \o second >>)
     ELSE Abs(SubSeq(segs, 1, Len(segs) - 1) \o << segs[Len(segs)] \o <<",">> \o second >>)

InBuildDir(name) == PathResolve(buildDir \o <<Rel(<<name>>)>>)

vrOutputFlat(file) == InBuildDir(BundleJs)

\* path.resolve(...buildDir, `${path.basename(file, '.vr.js')}.bundle.js`)
vrOutput(file) == InBuildDir(PathBasenameExt(file, VrJs) \o BundleJs)

\* buildScript(projectDir, buildDir, path.resolve(projectDir, file), output)
vrOp(file) ==
  Op("bundle", PathResolve(<<projectDir, file>>), vrOutput(file), ArrayToString(buildDir))

\* path.resolve(...buildDir, path.basename(file))
htmlOutput(file) == InBuildDir(PathBasename(file))

\* replaceBundleExtensionsInHtml(file, buildDir)
htmlOp(file) == Op("html", file, htmlOutput(file), NoPath)

clientOp(file) ==
  Op("client", PathResolve(<<file>>), InBuildDir(<<"client">> \o BundleJs),
     ArrayToString(buildDir))

copyOp ==
  Op("copy", PathResolve(<<projectDir, Rel(<<staticAssetsDir>>)>>),
     InBuildDir(staticAssetsDir), NoPath)

tailOpsNoCopy(files) == <<clientOp(files[FindClient(files, 1)])>>

\* The last two elements of the array given to Promise.all.
tailOps(files) == <<clientOp(files[FindClient(files, 1)]), copyOp>>

Map(f(_), s) == [i \in 1..Len(s) |-> f(s[i])]

\* The files of the project tree in a run, and the tree they make.
RunChain == {ChainDir(k) : k \in 0..2}

Proj == ChainDir(1)

Src == ChainDir(2)

RunCandidates ==
  { Child(Proj, <<"index", ".vr", ".js">>),
    Child(Proj, <<"index", ".html">>),
    Child(Child(Proj, <<"build">>), <<"index", ".html">>),
    Child(Src, <<"index", ".vr", ".js">>),
    Child(Src, <<"index", ".html">>),
    Child(Src, <<"client", ".vr", ".js">>),
    Child(Src, <<"client", ".js">>) }

Under(dir, p) == Len(p.segs) > Len(dir.segs) /\ Ancestor(p, Len(dir.segs)) = dir

RunTrees ==
  { t \in SUBSET {p \in RunCandidates : Under(projectDir, p)} : Cardinality(t) <= MaxFiles }

RunFs(tree) ==
  [files |-> tree,
   dirs |-> {Ancestor(p, k) : <<p, k>> \in {x \in tree \X (0..3) : x[2] < Len(x[1].segs)}}
            \cup {Ancestor(projectDir, k) : k \in 0..Len(projectDir.segs)}
            \cup {PathJoin(buildDir)}]

Launch ==
  /\ pc = "walking"
  /\ \E tree \in RunTrees :
       LET projectDirContents == walkDirSync(RunFs(tree), projectDir, BuildExclude)
           files == projectDirContents.val
           vrIs(f) == vrJsRegexTest(f)
           htmlIs(f) == isHtml(f)
           vrComponentFiles == Map(vrOp, SelectSeq(files, vrIs))
           htmlFiles == Map(htmlOp, SelectSeq(files, htmlIs))
       IN /\ contents' = projectDirContents
          /\ IF FindClient(files, 1) = 0
             THEN \* path.resolve(undefined) throws; the catch handler runs
                  /\ ops' = vrComponentFiles \o htmlFiles
                  /\ fanOut' = FALSE
                  /\ FailureExit(TypeError)
             ELSE /\ ops' = vrComponentFiles \o htmlFiles \o tailOps(files)
                  /\ fanOut' = TRUE
                  /\ pc' = "waiting"
                  /\ UNCHANGED <<printed, exitCode>>
  /\ UNCHANGED <<cwd, projectDir, buildDir, pkg, buildStat, stat, mkdirCalls>>
  /\ UNCHANGED walkVars

(***************************************************************************)
(* The completions of the launched operations, each with the promise       *)
(* reactions that run before the next event: Promise.all, the success      *)
(* handler and the catch handler (lines 185-211).                          *)
(***************************************************************************)
Rejected(os) == {i \in DOMAIN os : os[i].promise.st = "rejected"}

Settle(newOps) ==
  /\ ops' = newOps
  /\ IF Rejected(newOps) # {}
     THEN FailureExit(newOps[CHOOSE i \in Rejected(newOps) : TRUE].promise.val)
     ELSE IF \A i \in DOMAIN newOps : newOps[i].promise.st = "fulfilled"
          THEN /\ printed' = Append(printed, Msg("success", NoReason, PathResolve(buildDir)))
               /\ exitCode' = 0
               /\ pc' = "done"
          ELSE UNCHANGED <<pc, printed, exitCode>>

\* An exception thrown out of an fs callback: no handler catches it and the
\* process ends with status 1 before any promise reaction runs.
Crash(newOps) ==
  /\ ops' = newOps
  /\ printed' = Append(printed, Msg("uncaught", TypeError, NoPath))
  /\ exitCode' = 1
  /\ pc' = "crashed"

CloseCodes == {Code(0), Code(1), Code(127), NullCode}

CopyCodes == {Code(0), Code(1)}

\* npm.on('close', ...) of operation i, called with code.
CloseOf(i, code) ==
  /\ ops[i].phase = "running"
  /\ Settle([ops EXCEPT ![i].promise = onClose(@, code),
                        ![i].phase = "closed",
                        ![i].code = code])

\* The 'close' event of a bundler subprocess (lines 37-42).
BundleClose ==
  /\ pc = "waiting"
  /\ \E i \in DOMAIN ops :
       /\ ops[i].kind \in {"bundle", "client"}
       /\ \E code \in CloseCodes : CloseOf(i, code)
  /\ UNCHANGED <<cwd, projectDir, buildDir, pkg, buildStat, stat, mkdirCalls, fanOut, contents>>
  /\ UNCHANGED walkVars

\* The 'close' event of the copy subprocess (lines 86-91).
CopyClose ==
  /\ pc = "waiting"
  /\ \E i \in DOMAIN ops :
       /\ ops[i].kind = "copy"
       /\ \E code \in CopyCodes : CloseOf(i, code)
  /\ UNCHANGED <<cwd, projectDir, buildDir, pkg, buildStat, stat, mkdirCalls, fanOut, contents>>
  /\ UNCHANGED walkVars

\* The fs.readFile callback with an error: reject(err), then
\* data.toString() of undefined throws.
HtmlReadErr ==
  /\ pc = "waiting"
  /\ \E i \in DOMAIN ops :
       /\ ops[i].kind = "html"
       /\ ops[i].phase = "running"
       /\ Crash([ops EXCEPT ![i].promise = reject(@, IoError), ![i].phase = "threw",
                            ![i].err = "read"])
  /\ UNCHANGED <<cwd, projectDir, buildDir, pkg, buildStat, stat, mkdirCalls, fanOut, contents>>
  /\ UNCHANGED walkVars

\* The fs.readFile callback of operation i with the data of the file.
ReadOf(i, data) ==
  LET cb == ReadCallback(data) IN
  IF cb.threw
  THEN Crash([ops EXCEPT ![i].data = data, ![i].phase = "threw"])
  ELSE Settle([ops EXCEPT ![i].data = data, ![i].phase = "writing",
                          ![i].writes = cb.writes])

\* The fs.writeFile callback of the oldest write operation i asked for.
WriteOf(i, failed) ==
  /\ ops[i].kind = "html"
  /\ ops[i].phase = "writing"
  /\ Settle([ops EXCEPT ![i].promise = onWrite(@, failed),
                        ![i].err = IF failed THEN "write" ELSE @,
                        ![i].written = IF failed THEN @ ELSE Append(@, Head(ops[i].writes)),
                        ![i].writes = Tail(@),
                        ![i].phase = IF Tail(ops[i].writes) = <<>> THEN "done" ELSE "writing"])

HtmlWriteOk ==
  /\ pc = "waiting"
  /\ \E i \in DOMAIN ops : WriteOf(i, FALSE)
  /\ UNCHANGED <<cwd, projectDir, buildDir, pkg, buildStat, stat, mkdirCalls, fanOut, contents>>
  /\ UNCHANGED walkVars

HtmlWriteErr ==
  /\ pc = "waiting"
  /\ \E i \in DOMAIN ops : WriteOf(i, TRUE)
  /\ UNCHANGED <<cwd, projectDir, buildDir, pkg, buildStat, stat, mkdirCalls, fanOut, contents>>
  /\ UNCHANGED walkVars

(***************************************************************************)
(* A run of the script.                                                    *)
(***************************************************************************)
RunPkgKinds == {"absent", "reactvr"}

\* An HTML file without a bundle reference, and one with a reference.
RunHtmlData == { <<"f">>, <<Quote, "f", Bundle, ".js", Quote>> }

HtmlReadRun ==
  /\ pc = "waiting"
  /\ \E i \in DOMAIN ops :
       /\ ops[i].kind = "html"
       /\ ops[i].phase = "running"
       /\ \E data \in RunHtmlData : ReadOf(i, data)
  /\ UNCHANGED <<cwd, projectDir, buildDir, pkg, buildStat, stat, mkdirCalls, fanOut, contents>>
  /\ UNCHANGED walkVars

Init ==
  /\ \E c \in RunChain, p \in [RunChain -> RunPkgKinds], b \in {"absent", "dir", "file"} :
       Start(c, p, b)
  /\ WalkIdle

Next ==
  \/ LocateFound
  \/ LocateStep
  \/ LocateNotFound
  \/ EnsureBuildDir
  \/ MkdirOk
  \/ MkdirFails
  \/ Launch
  \/ BundleClose
  \/ CopyClose
  \/ HtmlReadErr
  \/ HtmlReadRun
  \/ HtmlWriteOk
  \/ HtmlWriteErr

Spec == Init /\ [][Next]_vars

(***************************************************************************)
(* replaceBundleExtensionsInHtml in isolation: one call, on a file of any  *)
(* content of at most MaxContentLen tokens.                                *)
(***************************************************************************)
HtmlTokens == {Quote, Slash, "f", Bundle, ".js"}

AllContents == UNION {[1..n -> HtmlTokens] : n \in 0..MaxContentLen}

HtmlReadAny ==
  /\ pc = "waiting"
  /\ \E i \in DOMAIN ops :
       /\ ops[i].kind = "html"
       /\ ops[i].phase = "running"
       /\ \E data \in AllContents : ReadOf(i, data)
  /\ UNCHANGED <<cwd, projectDir, buildDir, pkg, buildStat, stat, mkdirCalls, fanOut, contents>>
  /\ UNCHANGED walkVars

InitHtml ==
  /\ pc = "waiting"
  /\ cwd = Proj
  /\ projectDir = Proj
  /\ buildDir = <<Proj, Rel(<<buildDirName>>)>>
  /\ pkg = <<>>
  /\ buildStat = "dir"
  /\ stat = "dir"
  /\ mkdirCalls = 0
  /\ ops = <<htmlOp(Child(Src, <<"index", ".html">>))>>
  /\ fanOut = TRUE
  /\ contents = NoWalk
  /\ printed = <<>>
  /\ exitCode = NoExit
  /\ WalkIdle

NextHtml == HtmlReadErr \/ HtmlReadAny \/ HtmlWriteOk \/ HtmlWriteErr

SpecHtml == InitHtml /\ [][NextHtml]_vars

(***************************************************************************)
(* Claims about a run.                                                     *)
(***************************************************************************)
IsBundler(o) == o.kind \in {"bundle", "client"}

Printed(m) == \E k \in DOMAIN printed : printed[k].msg = m

\* The operation ended as the claim's "fails": a subprocess closed with a
\* code other than 0, or a read or write of an HTML file reported an error.
OpFailed(o) ==
  \/ o.kind \in {"bundle", "client", "copy"} /\ o.phase = "closed" /\ o.code # Code(0)
  \/ o.kind = "html" /\ o.err # "none"

OpSucceeded(o) ==
  \/ o.kind \in {"bundle", "client", "copy"} /\ o.phase = "closed" /\ o.code = Code(0)
  \/ o.kind = "html" /\ o.phase = "done" /\ o.err = "none"

\* What the operation's failure is reported as.
FailureOf(o) == IF o.kind = "html" THEN IoError ELSE o.code

(***************************************************************************)
(* C1: in a run that reached the fan-out, when every launched operation    *)
(* has succeeded the success message is printed and the exit status is not *)
(* 1; when one has failed the failure diagnostic is printed with the code  *)
(* of a failed operation, the exit status is 1 and the success message is  *)
(* not printed.                                                            *)
(***************************************************************************)
C1_AllOrNothing ==
  fanOut =>
    /\ (\A i \in DOMAIN ops : OpSucceeded(ops[i])) =>
         /\ Printed("success")
         /\ exitCode # 1
    /\ (\E i \in DOMAIN ops : OpFailed(ops[i])) =>
         /\ \E k \in DOMAIN printed, i \in DOMAIN ops :
              /\ OpFailed(ops[i])
              /\ printed[k] = Msg("failure", FailureOf(ops[i]), NoPath)
         /\ exitCode = 1
         /\ ~Printed("success")

(***************************************************************************)
(* C2: the promise of buildScript is fulfilled only when the subprocess    *)
(* closed with code 0; on any other close code (a number or null) it is    *)
(* rejected with that code; it settles once, when the subprocess closes.   *)
(***************************************************************************)
C2_BuildScriptPromise ==
  \A i \in DOMAIN ops :
    IsBundler(ops[i]) =>
      /\ ops[i].promise.st = "fulfilled" => ops[i].code = Code(0)
      /\ ops[i].phase = "closed" /\ ops[i].code = Code(0) => ops[i].promise.st = "fulfilled"
      /\ ops[i].phase = "closed" /\ ops[i].code # Code(0) =>
           /\ ops[i].promise.st = "rejected"
           /\ ops[i].promise.val = ops[i].code
      /\ ops[i].promise.settles = IF ops[i].phase = "closed" THEN 1 ELSE 0

C2_Witness ==
  \E i, j \in DOMAIN ops :
    /\ IsBundler(ops[i]) /\ ops[i].promise.st = "fulfilled"
    /\ IsBundler(ops[j]) /\ ops[j].code = NullCode /\ ops[j].promise.st = "rejected"

(***************************************************************************)
(* C6: once the project root is located, the build output directory (the   *)
(* one looked up and created, given as --assets-dest, holding every        *)
(* output and named in the success message) is `build` directly under the  *)
(* project root.                                                           *)
(***************************************************************************)
C6_BuildUnderProjectRoot ==
  LET want == PathJoin(<<projectDir, Rel(<<buildDirName>>)>>) IN
  pc \notin {"locating", "idle"} /\ ~Printed("notfound") =>
    /\ PathJoin(buildDir) = want
    /\ \A i \in DOMAIN ops :
         /\ IsBundler(ops[i]) => ops[i].assetsDest = want
         /\ PathJoin(<<ops[i].output, Rel(<<DotDot>>)>>) = want
    /\ \A k \in DOMAIN printed : printed[k].msg = "success" => printed[k].dir = want

(***************************************************************************)
(* C7: a build directory found to be a directory is not created again and  *)
(* the run goes on to the walk; otherwise its creation is attempted once,  *)
(* first; a failed creation ends the run with status 1 and nothing         *)
(* launched; nothing is walked or launched unless the directory exists.    *)
(***************************************************************************)
C7_BuildDirGate ==
  /\ stat = "dir" => mkdirCalls = 0 /\ pc # "mkdir"
  /\ stat \in {"absent", "file"} => mkdirCalls = 1
  /\ stat = "none" => mkdirCalls = 0 /\ pc \in {"locating", "ensuring", "exited", "idle"}
  /\ Printed("mkdirfailed") =>
       /\ pc = "exited"
       /\ exitCode = 1
       /\ ops = <<>>
       /\ contents = NoWalk
  /\ (pc \in {"walking", "waiting", "done", "crashed"} \/ ops # <<>> \/ contents # NoWalk) =>
       buildStat = "dir"

C7_Witness ==
  /\ stat = "absent"
  /\ mkdirCalls = 1
  /\ buildStat = "dir"
  /\ pc = "waiting"
  /\ ops # <<>>

Count(kind, input) ==
  Cardinality({i \in DOMAIN ops : ops[i].kind = kind /\ ops[i].input = input})

CountKind(kind) == Cardinality({i \in DOMAIN ops : ops[i].kind = kind})

Walked == Range(contents.val)

VrFiles == {f \in Walked : EndsWith(f.segs[Len(f.segs)], <<".vr", ".js">>)}

HtmlFiles ==
  {f \in Walked : LET n == f.segs[Len(f.segs)] IN Len(n) >= 2 /\ n[Len(n)] = ".html"}

HasClientJs(f) ==
  \E k \in DOMAIN f.segs : \E i \in DOMAIN f.segs[k] :
    i < Len(f.segs[k]) /\ f.segs[k][i] = "client" /\ f.segs[k][i + 1] = ".js"

ClientFiles == {f \in Walked : HasClientJs(f)}

FirstClient ==
  contents.val[CHOOSE k \in DOMAIN contents.val :
                 /\ HasClientJs(contents.val[k])
                 /\ \A m \in 1..(k - 1) : ~HasClientJs(contents.val[m])]

ComponentsAndHtmlLaunched ==
  /\ \A f \in VrFiles : Count("bundle", f) = 1
  /\ \A f \in HtmlFiles : Count("html", f) = 1
  /\ CountKind("bundle") = Cardinality(VrFiles)
  /\ CountKind("html") = Cardinality(HtmlFiles)

ClientAndCopyLaunched ==
  /\ CountKind("client") = 1
  /\ CountKind("copy") = 1
  /\ \E i \in DOMAIN ops :
       /\ ops[i].kind = "client"
       /\ HasClientJs(ops[i].input)
       /\ ops[i].output = PathJoin(buildDir \o <<Rel(<< <<"client", ".bundle", ".js">> >>)>>)
  /\ Len(ops) = Cardinality(VrFiles) + Cardinality(HtmlFiles) + 2

(***************************************************************************)
(* C8, as stated: once the walk has run, whatever the file list, the       *)
(* operations launched are one bundler invocation per file ending in       *)
(* .vr.js, one rewrite per .html file, one client bundler invocation and   *)
(* one asset copy, each once, all of them there before any completes.      *)
(***************************************************************************)
C8_FanOutEveryFileList ==
  contents # NoWalk => ComponentsAndHtmlLaunched /\ ClientAndCopyLaunched

(***************************************************************************)
(* C8, amended: once the walk has run, one bundler invocation per file     *)
(* ending in .vr.js and one rewrite per .html file are launched, each      *)
(* once; with a file whose path contains client.js in the list, so are one *)
(* client invocation (its entry the first such file) and one asset copy,   *)
(* all there before any completes; with no such file neither of the two is *)
(* launched and the run ends with status 1.                                *)
(***************************************************************************)
C8_FanOutWithClient ==
  contents # NoWalk =>
    /\ ComponentsAndHtmlLaunched
    /\ IF ClientFiles # {}
       THEN /\ ClientAndCopyLaunched
            /\ fanOut
            /\ \E i \in DOMAIN ops : ops[i].kind = "client" /\ ops[i].input = FirstClient
       ELSE /\ CountKind("client") = 0
            /\ CountKind("copy") = 0
            /\ ~fanOut
            /\ pc = "exited"
            /\ exitCode = 1

C8_Witness ==
  /\ pc = "waiting"
  /\ \A i \in DOMAIN ops : ops[i].phase = "running"
  /\ CountKind("bundle") >= 1
  /\ CountKind("html") >= 1
  /\ CountKind("client") = 1
  /\ CountKind("copy") = 1

(***************************************************************************)
(* C10, as stated: no two launched operations are given the same output    *)
(* path.                                                                   *)
(***************************************************************************)
C10_DistinctOutputs ==
  \A i, j \in DOMAIN ops : i # j => ops[i].output # ops[j].output

LastName(p) == p.segs[Len(p.segs)]

Stem(p) ==
  LET n == LastName(p) IN
  IF EndsWith(n, <<".vr", ".js">>) /\ Len(n) > 2 THEN SubSeq(n, 1, Len(n) - 2) ELSE n

SameTarget(a, b) ==
  \/ a.kind = "bundle" /\ b.kind = "bundle" /\ Stem(a.input) = Stem(b.input)
  \/ a.kind = "bundle" /\ b.kind = "client" /\ Stem(a.input) = <<"client">>
  \/ a.kind = "client" /\ b.kind = "bundle" /\ Stem(b.input) = <<"client">>
  \/ a.kind = "html" /\ b.kind = "html" /\ LastName(a.input) = LastName(b.input)

(***************************************************************************)
(* C10, amended: two launched operations are given the same output path    *)
(* exactly when they are two component entries with the same base name     *)
(* less .vr.js, a component entry client.vr.js and the client target, or   *)
(* two HTML files with the same base name.                                 *)
(***************************************************************************)
C10_SameOutputIffSameName ==
  \A i, j \in DOMAIN ops :
    i # j => (ops[i].output = ops[j].output <=> SameTarget(ops[i], ops[j]))

C10_Witness ==
  /\ fanOut
  /\ \E i, j \in DOMAIN ops :
       /\ ops[i].kind = "bundle" /\ ops[j].kind = "client"
       /\ ops[i].output = ops[j].output
  /\ \E i, j \in DOMAIN ops :
       /\ ops[i].kind = "bundle" /\ ops[j].kind = "html"

(***************************************************************************)
(* Claims about replaceBundleExtensionsInHtml.                             *)
(***************************************************************************)
NoReference(data) == MatchSpans(data, 1) = <<>>

(***************************************************************************)
(* C5: a file without a bundle reference whose read succeeded and whose    *)
(* write did not fail is written to the build directory with its content   *)
(* unchanged, under its base name, and the promise is fulfilled.           *)
(***************************************************************************)
C5_NoReferenceWritten ==
  \A i \in DOMAIN ops :
    ( /\ ops[i].kind = "html"
      /\ ops[i].phase \notin {"running", "writing"}
      /\ ops[i].err = "none"
      /\ NoReference(ops[i].data) ) =>
        /\ ops[i].written = <<ops[i].data>>
        /\ ops[i].output = PathJoin(buildDir \o <<Rel(<<LastName(ops[i].input)>>)>>)
        /\ ops[i].promise.st = "fulfilled"

\* The content with every match replaced where it stands.
RECURSIVE RewriteInPlace(_, _, _)
RewriteInPlace(data, spans, from) ==
  IF spans = <<>> THEN SubSeq(data, from, Len(data))
  ELSE LET m == Head(spans) IN
       SubSeq(data, from, m.from - 1)
         \o updatedPath(SubSeq(data, m.from, m.to))
         \o RewriteInPlace(data, Tail(spans), m.to + 1)

(***************************************************************************)
(* C9: the content written for a file with bundle references has every     *)
(* matched reference replaced by /<segment>.bundle.js, each once.          *)
(***************************************************************************)
C9_EveryReferenceNormalized ==
  \A i \in DOMAIN ops :
    ops[i].kind = "html" /\ ops[i].written # <<>> /\ ~NoReference(ops[i].data) =>
      ops[i].written = <<RewriteInPlace(ops[i].data, MatchSpans(ops[i].data, 1), 1)>>

====
